---- MODULE Spec2Model ----
(***************************************************************************)
(* Model of releaseGen.py: the release generation script.  The script      *)
(* loads releases.yaml, selects a release and one build per target,        *)
(* builds the Rogue zip file and the CPSW tarball and, with --push, tags   *)
(* the repository and creates the github release with its attachments.     *)
(*                                                                         *)
(* Python strings are sequences of one-character strings, so that          *)
(* 'in', replace, split, + and sorted() are computed as Python computes    *)
(* them.  A value that may be missing or None is a record                  *)
(* [kind, val] with kind "absent" (no such key), "null" (None) or "value". *)
(***************************************************************************)
EXTENDS Integers, Sequences, FiniteSets, TLC

VARIABLES
    pc,        \* position of __main__ / pushRelease
    err,       \* message of the exception that ended the run, "" if none
    args,      \* parsed command line
    cfg,       \* result of loadReleaseConfig
    relName,   \* selected release name
    relData,   \* selected release definition
    tIdx,      \* selectBuildImages: position in relData['Targets']
    retList,   \* selectBuildImages: list under construction
    builds,    \* selectBuildImages: buildName chosen for each target so far
    dirLists,  \* selectBuildImages: what os.listdir returned for each target so far
    prompts,   \* answers typed at the index prompts so far
    imgList,   \* __main__: imgList; tagAttach is the same list object
    ver,       \* getVersion: version
    prev,      \* getVersion: previous version
    walked,    \* what os.walk returned for each base directory read so far
    initFile,  \* lines of TopPackage/__init__.py as read on line 321
    lists,     \* what selectFiles returned for each file group read so far
    zf,        \* entries written to the Rogue zip file, in order; "none" record if not created
    tf,        \* entries added to the CPSW tarball, in order
    remote,    \* effects on the git remote and on github, in order
    upIdx,     \* pushRelease: position in tagAttach
    dirty      \* what locRepo.is_dirty() returned: "unread", "dirty" or "clean"

vars == << pc, err, args, cfg, relName, relData, tIdx, retList, builds, dirLists,
           prompts, imgList, ver, prev, walked, initFile, lists, zf, tf, remote, upIdx, dirty >>

-----------------------------------------------------------------------------
(* Bounds of the model *)

\* longest releases mapping drawn for releases.yaml
MaxReleases == 2
\* longest directory listing drawn for an image directory
MaxFiles == 3
\* largest index typed at a prompt; the smallest is -(MaxIdx + 1)
MaxIdx == 2
\* most nodes below one base directory of a file group
MaxNodes == 4
\* most lines of the top package's __init__.py
MaxLines == 2

-----------------------------------------------------------------------------
(* Python values *)

None      == [kind |-> "null",   val |-> <<>>]
Absent    == [kind |-> "absent", val |-> <<>>]
Some(v)   == [kind |-> "value",  val |-> v]

\* "not k in d or d[k] is None"
MissingOrNone(w) == w.kind = "absent" \/ w.kind = "null"

\* code points of the characters that occur in file names
Code == ("." :> 46) @@ ("0" :> 48) @@ ("1" :> 49) @@ ("2" :> 50) @@ ("9" :> 57) @@
        ("_" :> 95) @@ ("a" :> 97) @@ ("b" :> 98) @@ ("c" :> 99) @@ ("f" :> 102) @@
        ("i" :> 105) @@ ("m" :> 109) @@ ("n" :> 110) @@ ("o" :> 111) @@ ("s" :> 115) @@
        ("t" :> 116) @@ ("w" :> 119)

\* s[i:].startswith(sub), i counted from 1
StartsAt(sub, s, i) ==
    /\ i + Len(sub) - 1 <= Len(s)
    /\ \A k \in 1..Len(sub) : s[i + k - 1] = sub[k]

\* sub in s
Contains(sub, s) == \E i \in 1..(Len(s) + 1) : StartsAt(sub, s, i)

\* s.replace(old, new): every non-overlapping occurrence, left to right
RECURSIVE Replace(_, _, _)
Replace(s, old, new) ==
    IF s = <<>> THEN <<>>
    ELSE IF StartsAt(old, s, 1)
         THEN new \o Replace(SubSeq(s, Len(old) + 1, Len(s)), old, new)
         ELSE <<s[1]>> \o Replace(Tail(s), old, new)

\* s.split(sep)[0] for a one-character sep
RECURSIVE SplitFirst(_, _)
SplitFirst(s, sep) ==
    IF s = <<>> \/ s[1] = sep THEN <<>>
    ELSE <<s[1]>> \o SplitFirst(Tail(s), sep)

\* a < b for str: by code point, a proper prefix first
StrLess(a, b) ==
    \E k \in 1..(Len(a) + 1) :
        /\ \A j \in 1..(k - 1) : j <= Len(b) /\ a[j] = b[j]
        /\ k <= Len(b)
        /\ (k = Len(a) + 1 \/ Code[a[k]] < Code[b[k]])

\* sorted(S) for a set of str
RECURSIVE Sorted(_)
Sorted(S) ==
    IF S = {} THEN <<>>
    ELSE LET m == CHOOSE x \in S : \A y \in S \ {x} : StrLess(x, y)
         IN <<m>> \o Sorted(S \ {m})

\* os.path.join(a, b)
Join(a, b) ==
    IF b # <<>> /\ b[1] = "/" THEN b
    ELSE IF a = <<>> \/ a[Len(a)] = "/" THEN a \o b
    ELSE a \o <<"/">> \o b

\* os.path.basename(p)
RECURSIVE Basename(_)
Basename(p) ==
    IF p = <<>> THEN <<>>
    ELSE IF p[Len(p)] = "/" THEN <<>>
    ELSE Basename(SubSeq(p, 1, Len(p) - 1)) \o <<p[Len(p)]>>

\* list[idx] raises IndexError
IndexError(list, idx) == idx >= Len(list) \/ idx < -Len(list)

\* list[idx], negative idx counted from the end
PyIndex(list, idx) == IF idx >= 0 THEN list[idx + 1] ELSE list[Len(list) + idx + 1]

\* x in list
InList(x, list) == \E i \in 1..Len(list) : list[i] = x

\* list(d.keys()) and d[k] of a mapping kept as a sequence of [name, data]
Keys(d) == [i \in 1..Len(d) |-> d[i].name]
Lookup(d, k) == d[CHOOSE i \in 1..Len(d) : d[i].name = k].data

RECURSIVE Flatten(_)
Flatten(ss) == IF ss = <<>> THEN <<>> ELSE Head(ss) \o Flatten(Tail(ss))

Raise(msg) == [ok |-> FALSE, err |-> msg]

-----------------------------------------------------------------------------
(* Directories *)

Project     == <<"p">>
FirmwareDir == Join(Project, <<"f","i","r","m","w","a","r","e">>)

-----------------------------------------------------------------------------
(* loadReleaseConfig, lines 102-118.  file is what open() and yaml.load     *)
(* give: unreadable or unparseable, or the parsed mapping.                  *)

loadReleaseConfig(file) ==
    IF ~file.readable
    THEN Raise("Failed to load project release file")
    ELSE IF MissingOrNone(file.Releases)
    THEN Raise("Invalid release config. Releases key is missing or empty!")
    ELSE IF MissingOrNone(file.Targets)
    THEN Raise("Invalid release config. Targets key is missing or empty!")
    ELSE [ok |-> TRUE, err |-> "", cfg |-> file]

-----------------------------------------------------------------------------
(* selectRelease, lines 135-174.  ans is the line typed at the prompt of    *)
(* line 158, read only when the prompt is reached.                          *)

\* line 158 is reached
PromptsRelease(c, release) ==
    release.kind = "null" /\ Len(Keys(c.Releases.val)) # 1

\* lines 158-164 and 217-223: int(input(..)), the bound check and list[idx]
selectIndex(list, ans, msg) ==
    IF ans.kind = "text" THEN Raise("ValueError")
    ELSE IF ans.n >= Len(list) THEN Raise(msg)
    ELSE IF IndexError(list, ans.n) THEN Raise("IndexError")
    ELSE [ok |-> TRUE, err |-> "", name |-> PyIndex(list, ans.n)]

selectRelease(c, release, ans) ==
    LET keyList == Keys(c.Releases.val)
        chosen  ==
            IF release.kind # "null"
            THEN IF ~InList(release.val, keyList)
                 THEN Raise("Invalid command line release arg")
                 ELSE [ok |-> TRUE, err |-> "", name |-> release.val]
            ELSE IF Len(keyList) = 1
            THEN [ok |-> TRUE, err |-> "", name |-> keyList[1]]
            ELSE selectIndex(keyList, ans, "Invalid release index")
    IN  IF ~chosen.ok THEN chosen
        ELSE LET data == Lookup(c.Releases.val, chosen.name)
             IN  IF MissingOrNone(data.Targets)
                 THEN Raise("Invalid release config. Targets list in release is missing or empty!")
                 ELSE IF MissingOrNone(data.Types)
                 THEN Raise("Invalid release config. Types list in release is missing or empty!")
                 ELSE [ok |-> TRUE, err |-> "", relName |-> chosen.name, relData |-> data]

-----------------------------------------------------------------------------
(* selectBuildImages, lines 176-232: one round of the loop over             *)
(* relData['Targets'].  listing is what os.listdir(imageDir) gives and      *)
(* ans the line typed at the prompt of line 217, each read only when        *)
(* reached.                                                                 *)

\* line 180
imageDir(target) == Join(Join(Join(FirmwareDir, <<"t","a","r","g","e","t","s">>), target), <<"i","m","a","g","e","s">>)

\* lines 182-186: the target or its Extensions list is missing
targetError(c, target) ==
    IF ~InList(target, Keys(c.Targets.val))
    THEN "Invalid release config. Referenced target is missing in target list.!"
    ELSE IF MissingOrNone(Lookup(c.Targets.val, target).Extensions)
    THEN "Invalid release config. Extensions list for target is missing or empty!"
    ELSE ""

\* line 191: the names of the regular files of the listing, in listing order
dirFiles(listing) ==
    LET IsFile(e) == e.isFile
        files == SelectSeq(listing.entries, IsFile)
    IN  [i \in 1..Len(files) |-> files[i].name]

\* lines 196-200
baseList(target, dirList) ==
    { SplitFirst(dirList[i], ".") : i \in { j \in 1..Len(dirList) : Contains(target, dirList[j]) } }

\* a variant of latestBuild that takes the first name of the sorted list
latestBuildFirst(sortList) == PyIndex(sortList, 0)

\* line 207: sortList[-1]
latestBuild(sortList) == PyIndex(sortList, -1)

\* line 225
tarList(buildName, extensions) ==
    [i \in 1..Len(extensions) |-> buildName \o <<".">> \o extensions[i]]

\* a variant of foundImages that walks the wanted names, not the listing
foundImagesByExtension(target, dirList, names) ==
    LET Listed(f) == InList(f, dirList)
        found == SelectSeq(names, Listed)
    IN  [i \in 1..Len(found) |-> Join(imageDir(target), found[i])]

\* lines 228-230
foundImages(target, dirList, names) ==
    LET Wanted(f) == InList(f, names)
        found == SelectSeq(dirList, Wanted)
    IN  [i \in 1..Len(found) |-> Join(imageDir(target), found[i])]

\* line 217 is reached
PromptsBuild(c, target, build, listing) ==
    targetError(c, target) = "" /\ listing.exists /\ build.kind = "null"

selectBuildImagesRound(c, target, build, listing, ans) ==
    IF targetError(c, target) # "" THEN Raise(targetError(c, target))
    ELSE IF ~listing.exists THEN Raise("FileNotFoundError")
    ELSE
    LET extensions == Lookup(c.Targets.val, target).Extensions.val
        dirList    == dirFiles(listing)
        sortList   == Sorted(baseList(target, dirList))
        chosen     ==
            IF build.kind = "value" /\ build.val = <<"l","a","t","e","s","t">>
            THEN IF IndexError(sortList, -1) THEN Raise("IndexError")
                 ELSE [ok |-> TRUE, err |-> "", name |-> latestBuild(sortList)]
            ELSE IF build.kind # "null"
            THEN IF ~InList(build.val, sortList)
                 THEN Raise("Invalid command line build arg")
                 ELSE [ok |-> TRUE, err |-> "", name |-> build.val]
            ELSE selectIndex(sortList, ans, "Invalid build index")
    IN  IF ~chosen.ok THEN chosen
        ELSE [ok |-> TRUE, err |-> "", buildName |-> chosen.name,
              files |-> foundImages(target, dirList, tarList(chosen.name, extensions))]

-----------------------------------------------------------------------------
(* genFileList and selectFiles, lines 234-265.  A directory tree on disk    *)
(* is the sequence of its nodes [parent, name, isDir], parents first;       *)
(* parent is the path of the node's directory below the base ("" for the    *)
(* base itself).                                                            *)

\* the path of a node below the base
relPath(n) == IF n.parent = <<>> THEN n.name ELSE n.parent \o <<"/">> \o n.name

\* line 261: os.walk(base), the (root, folders, files) of every directory,
\* top down
walk(base, nodes) ==
    LET IsDir(n) == n.isDir
        dirs == <<<<>>>> \o [i \in 1..Len(SelectSeq(nodes, IsDir)) |->
                                relPath(SelectSeq(nodes, IsDir)[i])]
        Names(rel, isDir) ==
            LET In(n) == n.parent = rel /\ n.isDir = isDir
                sel == SelectSeq(nodes, In)
            IN  [i \in 1..Len(sel) |-> sel[i].name]
    IN  [i \in 1..Len(dirs) |->
            [root    |-> IF dirs[i] = <<>> THEN base ELSE Join(base, dirs[i]),
             folders |-> Names(dirs[i], TRUE),
             files   |-> Names(dirs[i], FALSE)]]

\* line 239
subPath(base, fullPath) == Replace(fullPath, base \o <<"/">>, <<>>)

\* lines 234-244
genFileList(base, root, entries, typ) ==
    [i \in 1..Len(entries) |->
        [type     |-> typ,
         fullPath |-> Join(root, entries[i]),
         subPath  |-> subPath(base, Join(root, entries[i]))]]

\* lines 250-256: the directories of the file group, generic ones first
groupDirs(c, rd, key) ==
    (IF MissingOrNone(c[key]) THEN <<>> ELSE c[key].val) \o
    (IF MissingOrNone(rd[key]) THEN <<>> ELSE rd[key].val)

\* lines 261-263 for one base directory
walkFiles(base, tree) ==
    Flatten([i \in 1..Len(tree) |->
        genFileList(base, tree[i].root, tree[i].folders, "folder") \o
        genFileList(base, tree[i].root, tree[i].files, "file")])

\* lines 246-265; disk maps each directory of the group to its nodes
selectFiles(c, rd, key, disk) ==
    LET dirList == groupDirs(c, rd, key)
    IN  Flatten([i \in 1..Len(dirList) |->
            walkFiles(Join(FirmwareDir, dirList[i]),
                      walk(Join(FirmwareDir, dirList[i]), disk[dirList[i]]))])

-----------------------------------------------------------------------------
(* buildRogueFile, lines 267-340.  An archive entry is [arcname, src,      *)
(* text]: src is the path of the disk file it was copied from, or text     *)
(* the bytes written into it.                                              *)

Copied(arcname, src)   == [arcname |-> arcname, src |-> src,  text |-> <<>>, written |-> FALSE]
Written(arcname, text) == [arcname |-> arcname, src |-> <<>>, text |-> text, written |-> TRUE]

NoArchive == [created |-> FALSE, entries |-> <<>>]

\* line 287
topInit(c) == c.TopPackage.val \o <<"/","_","_","i","n","i","t","_","_",".","p","y">>

\* the four markers of lines 325-328
Markers == { <<"i","m","p","o","r","t"," ","o","s">>, <<"_","_","v","e","r","s","i","o","n","_","_">>, <<"C","o","n","f","i","g","D","i","r">>, <<"I","m","a","g","e","D","i","r">> }

\* a variant of keepLine that does not look for the ImageDir marker
keepLineThreeMarkers(line) ==
    \A m \in Markers \ { <<"I","m","a","g","e","D","i","r">> } : ~Contains(m, line)

\* lines 325-328: the line is kept
keepLine(line) == \A m \in Markers : ~Contains(m, line)

\* lines 331-337
addedBlock(version) ==
    <<"\n","\n">> \o
    <<"#","#","#","#","#","#","#","#","#","#","#","#","#","#","#","#","#","#","#","#","#"," ","A","d","d","e","d"," ","b","y"," ","r","e","l","e","a","s","e"," ","s","c","r","i","p","t"," ","#","#","#","#","#","#","#","#","#","#","#","#","#","#","#","#","#","#","#","\n">> \o
    <<"i","m","p","o","r","t"," ","o","s","\n">> \o
    <<"_","_","v","e","r","s","i","o","n","_","_"," ","="," ","'">> \o version \o <<"'","\n">> \o
    <<"C","o","n","f","i","g","D","i","r"," ","="," ","o","s",".","p","a","t","h",".","d","i","r","n","a","m","e","(","_","_","f","i","l","e","_","_",")"," ","+"," ","'","/","c","o","n","f","i","g","'","\n">> \o
    <<"I","m","a","g","e","D","i","r"," "," ","="," ","o","s",".","p","a","t","h",".","d","i","r","n","a","m","e","(","_","_","f","i","l","e","_","_",")"," ","+"," ","'","/","i","m","a","g","e","s","'","\n">> \o
    <<"#","#","#","#","#","#","#","#","#","#","#","#","#","#","#","#","#","#","#","#","#","#","#","#","#","#","#","#","#","#","#","#","#","#","#","#","#","#","#","#","#","#","#","#","#","#","#","#","#","#","#","#","#","#","#","#","#","#","#","#","#","#","#","#","#","\n">>

\* lines 322-337
newInit(lines, version) ==
    Flatten(SelectSeq(lines, keepLine)) \o addedBlock(version)

\* lines 293-300: the entries written for pList
packageEntries(c, pList) ==
    LET NotInit(e) == e.subPath # topInit(c)
        sel == SelectSeq(pList, NotInit)
    IN  [i \in 1..Len(sel) |-> Copied(sel[i].subPath, sel[i].fullPath)]

\* lines 297-298: topPath after the loop, the last match
topPath(c, pList) ==
    LET hits == { i \in 1..Len(pList) : pList[i].subPath = topInit(c) }
    IN  IF hits = {} THEN None
        ELSE Some(pList[CHOOSE i \in hits : \A j \in hits : j <= i].fullPath)

\* lines 280-285, 302-305, 316-317
setupPy(c, version, name, pList) ==
    LET IsFolder(e) == e.type = "folder"
        folders == SelectSeq(pList, IsFolder)
    IN  <<"\n","\n","f","r","o","m"," ","d","i","s","t","u","t","i","l","s",".","c","o","r","e"," ","i","m","p","o","r","t"," ","s","e","t","u","p","\n","\n">> \o
        <<"s","e","t","u","p"," ","(","\n">> \o
        <<" "," "," ","n","a","m","e","=","'">> \o name \o <<"'",",","\n">> \o
        <<" "," "," ","v","e","r","s","i","o","n","=","'">> \o version \o <<"'",",","\n">> \o
        <<" "," "," ","p","a","c","k","a","g","e","s","=","[","\n">> \o
        Flatten([i \in 1..Len(folders) |->
                    <<" "," "," "," "," "," "," "," "," "," "," "," "," ","'">> \o folders[i].subPath \o <<"'",",","\n">>]) \o
        <<" "," "," "," "," "," "," "," "," "," "," "," ","]",",","\n">> \o
        <<" "," "," ","p","a","c","k","a","g","e","_","d","a","t","a","=","{","'">> \o c.TopPackage.val \o <<"'",":","[","'","c","o","n","f","i","g","/","*","'",",","'","i","m","a","g","e","s","/","*","'","]","}","\n">> \o
        <<")","\n">>

\* lines 307-313
configEntries(c, cList) ==
    [i \in 1..Len(cList) |->
        Copied(c.TopPackage.val \o <<"/","c","o","n","f","i","g","/">> \o cList[i].subPath, cList[i].fullPath)]

imageEntries(c, images) ==
    [i \in 1..Len(images) |->
        Copied(c.TopPackage.val \o <<"/","i","m","a","g","e","s","/">> \o Basename(images[i]), images[i])]

\* lines 272-276
rogueError(c, pList) ==
    IF Len(pList) = 0 THEN "Invalid release config. Rogue packages list is empty!"
    ELSE IF MissingOrNone(c.TopPackage) THEN "Invalid release config. TopPackage is not defined!"
    ELSE ""

\* line 321 is reached and opens a file
ReadsInit(c, pList) == rogueError(c, pList) = "" /\ topPath(c, pList).kind = "value"

\* lines 267-340; lines are the lines of the file at topPath
buildRogueFile(c, version, name, pList, cList, images, lines) ==
    IF rogueError(c, pList) # "" THEN [ok |-> FALSE, err |-> rogueError(c, pList), zf |-> NoArchive]
    ELSE
    LET upto319 == packageEntries(c, pList) \o configEntries(c, cList) \o
                   imageEntries(c, images) \o
                   << Written(<<"s","e","t","u","p",".","p","y">>, setupPy(c, version, name, pList)) >>
    IN  IF topPath(c, pList).kind # "value"
        THEN [ok |-> FALSE, err |-> "TypeError",
              zf |-> [created |-> TRUE, entries |-> upto319]]
        ELSE [ok |-> TRUE, err |-> "",
              zf |-> [created |-> TRUE,
                      entries |-> upto319 \o << Written(topInit(c), newInit(lines, version)) >>]]

-----------------------------------------------------------------------------
(* buildCpswFile, lines 342-361.  A tarball entry is [arcname, src, type]: *)
(* type is what the disk holds at src.                                     *)

\* line 347
baseDir(name) == name \o <<"_","p","r","o","j","e","c","t",".","y","a","m","l">>

\* a variant of tarEntries that adds the directories too
tarEntriesAll(prefix, list) ==
    [i \in 1..Len(list) |->
        [arcname |-> prefix \o list[i].subPath, src |-> list[i].fullPath, type |-> list[i].type]]

\* lines 355-357 and 359-361
tarEntries(prefix, list) ==
    LET IsFile(e) == e.type = "file"
        sel == SelectSeq(list, IsFile)
    IN  [i \in 1..Len(sel) |->
            [arcname |-> prefix \o sel[i].subPath, src |-> sel[i].fullPath, type |-> sel[i].type]]

buildCpswFile(name, sList, cList) ==
    IF Len(sList) = 0
    THEN [ok |-> FALSE, err |-> "Invalid release config. Cpsw packages list is empty!",
          tf |-> NoArchive]
    ELSE [ok |-> TRUE, err |-> "",
          tf |-> [created |-> TRUE,
                  entries |-> tarEntries(baseDir(name) \o <<"/">>, sList) \o
                              tarEntries(baseDir(name) \o <<"/","c","o","n","f","i","g","/">>, cList)]]

\* lines 421 and 427
zipName(name, version) ==
    Join(FirmwareDir, <<"r","o","g","u","e","_">> \o name \o <<"_">> \o version \o <<".","z","i","p">>)
tarName(name, version) ==
    Join(FirmwareDir, <<"c","p","s","w","_">> \o name \o <<"_">> \o version \o <<".","t","a","r",".","g","z">>)

\* line 374
tagName(name, version) == name \o <<"_">> \o version

-----------------------------------------------------------------------------
(* Inputs: the command lines, the releases.yaml files, the typed answers   *)
(* and the disk contents the runs are drawn from.                          *)

Release(name, targets, types, rp) ==
    [name |-> name,
     data |-> [Targets |-> targets, Types |-> types,
               RoguePackages |-> rp, RogueConfig |-> Absent,
               CpswSource |-> Absent, CpswConfig |-> Absent]]

RelA == Release(<<"a">>, Some(<<<<"f","w">>>>), Some(<<"Rogue", "CPSW">>), Absent)
RelB == Release(<<"b">>, Some(<<<<"f","w">>, <<"t","b">>>>), Some(<<"CPSW">>), Absent)
RelC == Release(<<"c">>, None, Some(<<"Rogue">>), Absent)
RelD == Release(<<"d">>, Some(<<>>), Some(<<>>), Absent)

NoRel == Release(<<>>, Absent, Absent, Absent).data

Target(name, extensions) == [name |-> name, data |-> [Extensions |-> extensions]]

ConfigFile(releases, targets, rp, rc, cs, cc, top) ==
    [readable |-> TRUE, Releases |-> releases, Targets |-> targets,
     RoguePackages |-> rp, RogueConfig |-> rc, CpswSource |-> cs, CpswConfig |-> cc,
     TopPackage |-> top]

NoCfg == [ConfigFile(Absent, Absent, Absent, Absent, Absent, Absent, Absent)
            EXCEPT !.readable = FALSE]

\* the sequences over S of length at most n without a repeated element
SeqsNoRep(S, n) ==
    UNION { { s \in [1..k -> S] : \A i, j \in 1..k : i # j => s[i] # s[j] } : k \in 0..n }

\* the elements of seq at the positions in I, in order
Pick(seq, I) ==
    LET F[k \in 0..Len(seq)] ==
            IF k = 0 THEN <<>>
            ELSE IF k \in I THEN Append(F[k - 1], seq[k]) ELSE F[k - 1]
    IN  F[Len(seq)]

Answer(n) == [kind |-> "int", n |-> n]
NotANumber == [kind |-> "text", n |-> 0]
Answers == { Answer(n) : n \in (-(MaxIdx + 1))..MaxIdx } \cup { NotANumber }

File(name) == [name |-> name, isFile |-> TRUE]
Dir(name)  == [name |-> name, isFile |-> FALSE]
NoDirectory == [exists |-> FALSE, entries |-> <<>>]
Listing(entries) == [exists |-> TRUE, entries |-> entries]

FwEntries == { File(<<"f","w","_","1",".","b","i","t">>), File(<<"f","w","_","1",".","m","c","s">>), File(<<"f","w","_","2",".","b","i","t">>), File(<<"f","w","_","1","0",".","b","i","t">>),
               Dir(<<"f","w","_","9",".","b","i","t">>), File(<<"n","o",".","b","i","t">>) }
TbEntries == { File(<<"t","b","_","1",".","b","i","t">>) }

Listings(entries, n) == { NoDirectory } \cup { Listing(s) : s \in SeqsNoRep(entries, n) }

Node(parent, name, isDir) == [parent |-> parent, name |-> name, isDir |-> isDir]

SNodes == << Node(<<>>, <<"a",".","t","x","t">>, FALSE),
             Node(<<>>, <<"s","u","b">>, TRUE),
             Node(<<"s","u","b">>, <<"b",".","t","x","t">>, FALSE),
             Node(<<"s","u","b">>, <<"_","_","i","n","i","t","_","_",".","p","y">>, FALSE),
             Node(<<>>, <<"p">>, TRUE),
             Node(<<"p">>, <<"f","i","r","m","w","a","r","e">>, TRUE),
             Node(<<"p","/","f","i","r","m","w","a","r","e">>, <<"s">>, TRUE),
             Node(<<"p","/","f","i","r","m","w","a","r","e","/","s">>, <<"c",".","t","x","t">>, FALSE) >>

CNodes == << Node(<<>>, <<"e">>, TRUE),
             Node(<<"e">>, <<"y",".","y","a","m","l">>, FALSE) >>

\* the trees of at most n nodes among those of universe: with a node, its directory
Trees(universe, n) ==
    { Pick(universe, I) : I \in
        { J \in SUBSET (1..Len(universe)) :
            /\ Cardinality(J) <= n
            /\ \A i \in J : universe[i].parent = <<>> \/
                  \E j \in J : universe[j].isDir /\ relPath(universe[j]) = universe[i].parent } }

InitLines == { <<"i","m","p","o","r","t"," ","o","s","\n">>, <<"_","_","v","e","r","s","i","o","n","_","_","=","0","\n">>, <<"C","o","n","f","i","g","D","i","r","=","1","\n">>, <<"I","m","a","g","e","D","i","r","=","2","\n">>,
               <<"x","=","1","\n">>, <<"y","=","2">> }

\* the files of at most n lines: only the last line may lack its line end
Initializers(n) ==
    UNION { { s \in [1..k -> InitLines] :
                \A i \in 1..(k - 1) : s[i][Len(s[i])] = "\n" } : k \in 0..n }

Args(release, build, version, push) ==
    [release |-> release, build |-> build, version |-> version, prev |-> None, push |-> push]

\* inputs of the selection stage
SelectArgs ==
    { Args(r, b, Some(<<"v","1">>), FALSE) :
        r \in { None, Some(<<"a">>), Some(<<"z","z">>) },
        b \in { None, Some(<<"l","a","t","e","s","t">>), Some(<<"f","w","_","1">>) } }

\* the subsequences of seq of length at most n
SubSeqs(seq, n) ==
    { Pick(seq, I) : I \in { J \in SUBSET (1..Len(seq)) : Cardinality(J) <= n } }

ReleaseOptions ==
    { Absent, None } \cup { Some(s) : s \in SubSeqs(<< RelA, RelB, RelC >>, MaxReleases) }

TargetOptions ==
    { Absent, None, Some(<<>>),
      Some(<< Target(<<"f","w">>, None) >>),
      Some(<< Target(<<"f","w">>, Some(<<<<"b","i","t">>, <<"m","c","s">>>>)), Target(<<"t","b">>, Some(<<<<"b","i","t">>>>)) >>) }

SelectInputs ==
    [files    |-> { NoCfg } \cup
                  { ConfigFile(r, t, Absent, Absent, Absent, Absent, Absent) :
                      r \in ReleaseOptions, t \in TargetOptions },
     answers  |-> Answers,
     listings |-> (<<"f","w">> :> Listings(FwEntries, MaxFiles)) @@
                  (<<"t","b">> :> Listings(TbEntries, 1)),
     versions |-> { <<"v","2">> },
     trees    |-> (<<"s">> :> { <<>> }) @@ (<<"c">> :> { <<>> }),
     inits    |-> { <<>> }]

\* inputs of the archive stage
FileArgs ==
    { Args(Some(<<"a">>), Some(<<"l","a","t","e","s","t">>), v, FALSE) : v \in { Some(<<"v","1">>), None } }

BothTargets ==
    Some(<< Target(<<"f","w">>, Some(<<<<"b","i","t">>, <<"m","c","s">>>>)), Target(<<"t","b">>, Some(<<<<"b","i","t">>>>)) >>)

FileRelease(types, rp) == Some(<< Release(<<"a">>, Some(<<<<"f","w">>>>), types, rp) >>)

FileConfigs ==
    { ConfigFile(FileRelease(t, Absent), BothTargets,
                 Some(<<<<"s">>>>), Some(<<<<"c">>>>), Some(<<<<"s">>>>), Some(<<<<"c">>>>), Some(<<"s","u","b">>)) :
        t \in { Some(<<"Rogue", "CPSW">>), Some(<<"CPSW">>) } } \cup
    { ConfigFile(FileRelease(t, Some(<<<<"s">>>>)), BothTargets,
                 None, None, Some(<<<<"c">>, <<"s">>>>), Absent, Some(<<"s","u","b">>)) :
        t \in { Some(<<"Rogue", "CPSW">>), Some(<<"CPSW">>) } } \cup
    { ConfigFile(FileRelease(Some(<<"Rogue", "CPSW">>), Absent), BothTargets,
                 Absent, Absent, Absent, Some(<<<<"c">>>>), Some(<<"s","u","b">>)),
      ConfigFile(FileRelease(Some(<<"Rogue", "CPSW">>), Absent), BothTargets,
                 Some(<<<<"s">>>>), Absent, Some(<<<<"s">>>>), Absent, Absent),
      ConfigFile(FileRelease(Some(<<"Rogue", "CPSW">>), Some(<<<<"s">>>>)), BothTargets,
                 Some(<<<<"s">>>>), Some(<<<<"c">>>>), Absent, Some(<<<<"c">>>>), Some(<<"s","u","b">>)) }

FileInputs ==
    [files    |-> FileConfigs,
     answers  |-> Answers,
     listings |-> (<<"f","w">> :> { Listing(<< File(<<"f","w","_","1",".","b","i","t">>) >>) }) @@
                  (<<"t","b">> :> { Listing(<< File(<<"t","b","_","1",".","b","i","t">>) >>) }),
     versions |-> { <<"v","2">> },
     trees    |-> (<<"s">> :> Trees(SNodes, MaxNodes)) @@ (<<"c">> :> Trees(CNodes, MaxNodes)),
     inits    |-> Initializers(MaxLines)]

\* inputs of the whole run
RunArgs ==
    { Args(r, Some(<<"l","a","t","e","s","t">>), v, p) :
        r \in { None, Some(<<"a">>) }, v \in { Some(<<"v","1">>), None }, p \in BOOLEAN }

RelE == Release(<<"e">>, Some(<<<<"f","w">>>>), Some(<<"Rogue">>), Absent)

RunInputs ==
    [files    |-> { NoCfg,
                    ConfigFile(Some(<< RelA, RelB, RelD, RelE >>), BothTargets,
                               Some(<<<<"s">>>>), Some(<<<<"c">>>>), Some(<<<<"s">>>>), Some(<<<<"c">>>>),
                               Some(<<"s","u","b">>)) },
     answers  |-> Answers,
     listings |-> (<<"f","w">> :> { NoDirectory,
                              Listing(<< File(<<"f","w","_","1",".","m","c","s">>), File(<<"f","w","_","1",".","b","i","t">>) >>) }) @@
                  (<<"t","b">> :> { Listing(<< File(<<"t","b","_","1",".","b","i","t">>) >>) }),
     versions |-> { <<"v","2">> },
     trees    |-> (<<"s">> :> { <<>>, Pick(SNodes, { 2, 4 }) }) @@
                  (<<"c">> :> { Pick(CNodes, { 1, 2 }) }),
     inits    |-> { << <<"x","=","1","\n">> >> }]

-----------------------------------------------------------------------------
(* The run: __main__, lines 407-432.  dom holds the sets the inputs read   *)
(* during the run are drawn from.                                          *)

NoLists == [RoguePackages |-> None, RogueConfig |-> None,
            CpswSource |-> None, CpswConfig |-> None]

NothingWalked == [d \in {} |-> <<>>]

InitWith(argSet) ==
    /\ pc = "loadReleaseConfig"
    /\ err = ""
    /\ args \in argSet
    /\ cfg = NoCfg
    /\ relName = <<>>
    /\ relData = NoRel
    /\ tIdx = 0
    /\ retList = <<>>
    /\ builds = <<>>
    /\ dirLists = <<>>
    /\ prompts = <<>>
    /\ imgList = <<>>
    /\ ver = <<>>
    /\ prev = None
    /\ walked = NothingWalked
    /\ initFile = None
    /\ lists = NoLists
    /\ zf = NoArchive
    /\ tf = NoArchive
    /\ remote = <<>>
    /\ upIdx = 0
    /\ dirty = "unread"

\* an uncaught exception ends the run
Fail(msg) == pc' = "error" /\ err' = msg

\* line 408
CallLoadReleaseConfig(dom) ==
    /\ pc = "loadReleaseConfig"
    /\ \E file \in dom.files :
         LET r == loadReleaseConfig(file)
         IN  IF r.ok THEN cfg' = r.cfg /\ pc' = "selectRelease" /\ err' = err
             ELSE cfg' = cfg /\ Fail(r.err)
    /\ UNCHANGED << args, relName, relData, tIdx, retList, builds, dirLists, prompts,
                    imgList, ver, prev, walked, initFile, lists, zf, tf, remote, upIdx, dirty >>

\* line 409
CallSelectRelease(dom) ==
    /\ pc = "selectRelease"
    /\ \E ans \in (IF PromptsRelease(cfg, args.release) THEN dom.answers ELSE { NotANumber }) :
         LET r == selectRelease(cfg, args.release, ans)
         IN  /\ prompts' = IF PromptsRelease(cfg, args.release)
                           THEN Append(prompts, ans) ELSE prompts
             /\ IF r.ok
                THEN /\ relName' = r.relName
                     /\ relData' = r.relData
                     /\ pc' = "selectBuildImages"
                     /\ tIdx' = 1
                     /\ err' = err
                ELSE /\ Fail(r.err)
                     /\ UNCHANGED << relName, relData, tIdx >>
    /\ UNCHANGED << args, cfg, retList, builds, dirLists, imgList, ver, prev, walked,
                    initFile, lists, zf, tf, remote, upIdx, dirty >>

\* line 410, one round of the loop of line 179
SelectBuildImagesRound(dom) ==
    /\ pc = "selectBuildImages"
    /\ tIdx <= Len(relData.Targets.val)
    /\ LET target == relData.Targets.val[tIdx]
           lists_ == IF targetError(cfg, target) = "" THEN dom.listings[target]
                     ELSE { NoDirectory }
       IN  \E listing \in lists_ :
           \E ans \in (IF PromptsBuild(cfg, target, args.build, listing)
                       THEN dom.answers ELSE { NotANumber }) :
             LET r == selectBuildImagesRound(cfg, target, args.build, listing, ans)
             IN  /\ prompts' = IF PromptsBuild(cfg, target, args.build, listing)
                               THEN Append(prompts, ans) ELSE prompts
                 /\ dirLists' = Append(dirLists, listing)
                 /\ IF r.ok
                    THEN /\ retList' = retList \o r.files
                         /\ builds' = Append(builds, r.buildName)
                         /\ tIdx' = tIdx + 1
                         /\ UNCHANGED << pc, err >>
                    ELSE /\ Fail(r.err)
                         /\ UNCHANGED << retList, builds, tIdx >>
    /\ UNCHANGED << args, cfg, relName, relData, imgList, ver, prev, walked, initFile,
                    lists, zf, tf, remote, upIdx, dirty >>

\* line 232 and the assignment of line 410
SelectBuildImagesReturn ==
    /\ pc = "selectBuildImages"
    /\ tIdx > Len(relData.Targets.val)
    /\ imgList' = retList
    /\ pc' = "getVersion"
    /\ UNCHANGED << err, args, cfg, relName, relData, tIdx, retList, builds, dirLists,
                    prompts, ver, prev, walked, initFile, lists, zf, tf, remote, upIdx, dirty >>

\* lines 411-417, getVersion of lines 120-133; tagAttach names the list imgList
CallGetVersion(dom) ==
    /\ pc = "getVersion"
    /\ \E v \in (IF args.version.kind = "null" THEN dom.versions ELSE { args.version.val }) :
         ver' = v
    /\ \E p \in (IF args.push /\ args.prev.kind = "null"
                 THEN { Some(q) : q \in dom.versions } ELSE { args.prev }) :
         prev' = p
    /\ pc' = "buildRogueFile"
    /\ UNCHANGED << err, args, cfg, relName, relData, tIdx, retList, builds, dirLists,
                    prompts, imgList, walked, initFile, lists, zf, tf, remote, upIdx, dirty >>

\* the base directories of the two file groups , as a set
BaseDirs(key1, key2) ==
    { groupDirs(cfg, relData, key1)[i] : i \in 1..Len(groupDirs(cfg, relData, key1)) } \cup
    { groupDirs(cfg, relData, key2)[i] : i \in 1..Len(groupDirs(cfg, relData, key2)) }

\* the disk as read so far and after reading the directories in new
Disks(dom, new) ==
    { walked @@ w : w \in { f \in [new \ DOMAIN walked ->
                                    UNION { dom.trees[d] : d \in DOMAIN dom.trees }] :
                              \A d \in new \ DOMAIN walked : f[d] \in dom.trees[d] } }

\* lines 420-423
CallBuildRogueFile(dom) ==
    /\ pc = "buildRogueFile"
    /\ IF ~InList("Rogue", relData.Types.val)
       THEN /\ pc' = "buildCpswFile"
            /\ UNCHANGED << err, imgList, walked, initFile, lists, zf >>
       ELSE \E disk \in Disks(dom, BaseDirs("RoguePackages", "RogueConfig")) :
            LET pList == selectFiles(cfg, relData, "RoguePackages", disk)
                cList == selectFiles(cfg, relData, "RogueConfig", disk)
            IN  \E lines \in (IF ReadsInit(cfg, pList) THEN dom.inits ELSE { <<>> }) :
                LET r == buildRogueFile(cfg, ver, relName, pList, cList, imgList, lines)
                IN  /\ walked' = disk
                    /\ lists' = [lists EXCEPT !.RoguePackages = Some(pList),
                                              !.RogueConfig = Some(cList)]
                    /\ initFile' = IF ReadsInit(cfg, pList) THEN Some(lines) ELSE initFile
                    /\ zf' = r.zf
                    /\ IF r.ok
                       THEN /\ imgList' = Append(imgList, zipName(relName, ver))
                            /\ pc' = "buildCpswFile"
                            /\ err' = err
                       ELSE /\ Fail(r.err)
                            /\ imgList' = imgList
    /\ UNCHANGED << args, cfg, relName, relData, tIdx, retList, builds, dirLists,
                    prompts, ver, prev, tf, remote, upIdx, dirty >>

\* lines 426-431
CallBuildCpswFile(dom) ==
    /\ pc = "buildCpswFile"
    /\ IF ~InList("CPSW", relData.Types.val)
       THEN /\ pc' = IF args.push THEN "pushRelease" ELSE "done"
            /\ UNCHANGED << err, imgList, walked, lists, tf >>
       ELSE \E disk \in Disks(dom, BaseDirs("CpswSource", "CpswConfig")) :
            LET sList == selectFiles(cfg, relData, "CpswSource", disk)
                cList == selectFiles(cfg, relData, "CpswConfig", disk)
                r == buildCpswFile(relName, sList, cList)
            IN  /\ walked' = disk
                /\ lists' = [lists EXCEPT !.CpswSource = Some(sList),
                                          !.CpswConfig = Some(cList)]
                /\ tf' = r.tf
                /\ IF r.ok
                   THEN /\ imgList' = Append(imgList, tarName(relName, ver))
                        /\ pc' = IF args.push THEN "pushRelease" ELSE "done"
                        /\ err' = err
                   ELSE /\ Fail(r.err)
                        /\ imgList' = imgList
    /\ UNCHANGED << args, cfg, relName, relData, tIdx, retList, builds, dirLists,
                    prompts, ver, prev, initFile, zf, remote, upIdx, dirty >>

-----------------------------------------------------------------------------
(* pushRelease, lines 363-404, called on line 432.  Each call of the git   *)
(* or github client either returns or raises.                              *)

Effect(op, arg) == [op |-> op, arg |-> arg]

\* lines 364-369: open the repository, read the remote url, match the project
PushOpenRepo ==
    /\ pc = "pushRelease"
    /\ \E ok \in BOOLEAN :
         IF ok THEN pc' = "is_dirty" /\ err' = err
         ELSE Fail("git.Repo or remote url failed")
    /\ UNCHANGED << args, cfg, relName, relData, tIdx, retList, builds, dirLists, prompts,
                    imgList, ver, prev, walked, initFile, lists, zf, tf, remote, upIdx, dirty >>

\* a variant of PushIsDirty that goes on with a dirty repository
PushIsDirtyIgnored ==
    /\ pc = "is_dirty"
    /\ \E d \in BOOLEAN :
         /\ dirty' = IF d THEN "dirty" ELSE "clean"
         /\ pc' = "create_tag" /\ err' = err
    /\ UNCHANGED << args, cfg, relName, relData, tIdx, retList, builds, dirLists, prompts,
                    imgList, ver, prev, walked, initFile, lists, zf, tf, remote, upIdx >>

\* lines 371-372
PushIsDirty ==
    /\ pc = "is_dirty"
    /\ \E d \in BOOLEAN :
         /\ dirty' = IF d THEN "dirty" ELSE "clean"
         /\ IF d THEN Fail("Cannot create tag! Git repo is dirty!")
            ELSE pc' = "create_tag" /\ err' = err
    /\ UNCHANGED << args, cfg, relName, relData, tIdx, retList, builds, dirLists, prompts,
                    imgList, ver, prev, walked, initFile, lists, zf, tf, remote, upIdx >>

\* a variant of ClientCall in which a call that raises has had its effect
ClientCallEffectThenRaise(at, next, effect) ==
    /\ pc = at
    /\ \E ok \in BOOLEAN :
         /\ remote' = remote \o effect
         /\ IF ok THEN pc' = next /\ err' = err
            ELSE Fail("client call failed")

\* a call of the git or github client at position at: it has its effect and
\* the run goes on at position next, or it raises
ClientCall(at, next, effect) ==
    /\ pc = at
    /\ \E ok \in BOOLEAN :
         IF ok THEN /\ remote' = remote \o effect
                    /\ pc' = next
                    /\ err' = err
         ELSE Fail("client call failed") /\ remote' = remote

\* lines 374-378
PushCreateTag ==
    /\ ClientCall("create_tag", "push", << Effect("create_tag", tagName(relName, ver)) >>)
    /\ UNCHANGED << args, cfg, relName, relData, tIdx, retList, builds, dirLists, prompts,
                    imgList, ver, prev, walked, initFile, lists, zf, tf, upIdx, dirty >>

\* line 379
PushPushTag ==
    /\ ClientCall("push", "get_repo", << Effect("push", tagName(relName, ver)) >>)
    /\ UNCHANGED << args, cfg, relName, relData, tIdx, retList, builds, dirLists, prompts,
                    imgList, ver, prev, walked, initFile, lists, zf, tf, upIdx, dirty >>

\* lines 381-396
PushGetRepo ==
    /\ ClientCall("get_repo", "getReleaseNotes", <<>>)
    /\ UNCHANGED << args, cfg, relName, relData, tIdx, retList, builds, dirLists, prompts,
                    imgList, ver, prev, walked, initFile, lists, zf, tf, upIdx, dirty >>

\* lines 398-399
PushGetReleaseNotes ==
    /\ ClientCall("getReleaseNotes", "create_git_release", <<>>)
    /\ UNCHANGED << args, cfg, relName, relData, tIdx, retList, builds, dirLists, prompts,
                    imgList, ver, prev, walked, initFile, lists, zf, tf, upIdx, dirty >>

\* line 400
PushCreateRelease ==
    /\ ClientCall("create_git_release", "upload_asset",
                  << Effect("create_git_release", tagName(relName, ver)) >>)
    /\ upIdx' = IF pc' = "error" THEN upIdx ELSE 1
    /\ UNCHANGED << args, cfg, relName, relData, tIdx, retList, builds, dirLists, prompts,
                    imgList, ver, prev, walked, initFile, lists, zf, tf, dirty >>

\* a variant of PushUploadAsset that uploads tagAttach from its end
PushUploadAssetReversed ==
    /\ upIdx <= Len(imgList)
    /\ ClientCall("upload_asset", "upload_asset",
                  << Effect("upload_asset", imgList[Len(imgList) + 1 - upIdx]) >>)
    /\ upIdx' = IF pc' = "error" THEN upIdx ELSE upIdx + 1
    /\ UNCHANGED << args, cfg, relName, relData, tIdx, retList, builds, dirLists, prompts,
                    imgList, ver, prev, walked, initFile, lists, zf, tf, dirty >>

\* lines 403-404, one round of the loop over tagAttach
PushUploadAsset ==
    /\ upIdx <= Len(imgList)
    /\ ClientCall("upload_asset", "upload_asset", << Effect("upload_asset", imgList[upIdx]) >>)
    /\ upIdx' = IF pc' = "error" THEN upIdx ELSE upIdx + 1
    /\ UNCHANGED << args, cfg, relName, relData, tIdx, retList, builds, dirLists, prompts,
                    imgList, ver, prev, walked, initFile, lists, zf, tf, dirty >>

\* the end of the loop of line 403
PushReturn ==
    /\ pc = "upload_asset"
    /\ upIdx > Len(imgList)
    /\ pc' = "done"
    /\ UNCHANGED << err, args, cfg, relName, relData, tIdx, retList, builds, dirLists,
                    prompts, imgList, ver, prev, walked, initFile, lists, zf, tf, remote,
                    upIdx, dirty >>

-----------------------------------------------------------------------------
(* Specifications *)

\* the selection stage, lines 408-410, over the releases.yaml files,
\* command lines, listings and answers of SelectInputs
InitSelect == InitWith(SelectArgs)

NextSelect ==
    \/ CallLoadReleaseConfig(SelectInputs)
    \/ CallSelectRelease(SelectInputs)
    \/ SelectBuildImagesRound(SelectInputs)
    \/ SelectBuildImagesReturn

SpecSelect == InitSelect /\ [][NextSelect]_vars

\* the archive stage, lines 411-431, over the file groups, trees and
\* initializer files of FileInputs
InitFiles == InitWith(FileArgs)

NextFiles ==
    \/ CallLoadReleaseConfig(FileInputs)
    \/ CallSelectRelease(FileInputs)
    \/ SelectBuildImagesRound(FileInputs)
    \/ SelectBuildImagesReturn
    \/ CallGetVersion(FileInputs)
    \/ CallBuildRogueFile(FileInputs)
    \/ CallBuildCpswFile(FileInputs)

SpecFiles == InitFiles /\ [][NextFiles]_vars

\* the whole run, lines 407-432, over RunInputs
Init == InitWith(RunArgs)

Next ==
    \/ CallLoadReleaseConfig(RunInputs)
    \/ CallSelectRelease(RunInputs)
    \/ SelectBuildImagesRound(RunInputs)
    \/ SelectBuildImagesReturn
    \/ CallGetVersion(RunInputs)
    \/ CallBuildRogueFile(RunInputs)
    \/ CallBuildCpswFile(RunInputs)
    \/ PushOpenRepo
    \/ PushIsDirty
    \/ PushCreateTag
    \/ PushPushTag
    \/ PushGetRepo
    \/ PushGetReleaseNotes
    \/ PushCreateRelease
    \/ PushUploadAsset
    \/ PushReturn

Spec == Init /\ [][Next]_vars

-----------------------------------------------------------------------------
(* Properties of the selection stage *)

\* loadReleaseConfig has returned a configuration
Loaded == pc \notin { "loadReleaseConfig" } /\ cfg.readable

\* selectRelease has been called and has ended
ReleaseCalled == Loaded /\ pc # "selectRelease"

\* selectRelease has returned a release
ReleaseSelected == ReleaseCalled /\ relData.Targets.kind = "value"

\* the answer is a position 0..n-1 of a list of n elements
ValidIndex(ans, n) == ans.kind = "int" /\ 0 <= ans.n /\ ans.n < n

\* the number of answers typed before the rounds of selectBuildImages
ReleasePrompts == IF PromptsRelease(cfg, args.release) THEN 1 ELSE 0

\* the rounds of selectBuildImages that have read their image directory
Rounds == 1..Len(dirLists)

RoundTarget(i) == relData.Targets.val[i]

\* the names of the regular files of the image directory of round i
RegularFiles(i) ==
    { dirLists[i].entries[k].name :
        k \in { j \in 1..Len(dirLists[i].entries) : dirLists[i].entries[j].isFile } }

\* the build candidates of round i: the base names of the regular files
\* whose name contains the target
Candidates(i) ==
    { SplitFirst(f, ".") : f \in { g \in RegularFiles(i) : Contains(RoundTarget(i), g) } }

\* C3: after loadReleaseConfig has returned a configuration, its Releases and
\* its Targets are present and not empty: a releases.yaml in which either is
\* absent, null or an empty mapping is refused.
C3_EmptySectionRefused ==
    Loaded =>
        /\ cfg.Releases.kind = "value" /\ cfg.Releases.val # <<>>
        /\ cfg.Targets.kind = "value" /\ cfg.Targets.val # <<>>

\* the --release name is not a key of Releases
BadReleaseArg ==
    args.release.kind = "value" /\ ~InList(args.release.val, Keys(cfg.Releases.val))

\* the answer typed at the release prompt is no position of the key list
BadReleaseIndex ==
    /\ PromptsRelease(cfg, args.release)
    /\ ~ValidIndex(prompts[1], Len(Keys(cfg.Releases.val)))

\* the --build name is not a candidate of round i
BadBuildArg(i) ==
    /\ dirLists[i].exists
    /\ args.build.kind = "value"
    /\ args.build.val # <<"l","a","t","e","s","t">>
    /\ args.build.val \notin Candidates(i)

\* the answer typed at the build prompt of round i is no position of the
\* candidate list
BadBuildIndex(i) ==
    /\ dirLists[i].exists
    /\ args.build.kind = "null"
    /\ ~ValidIndex(prompts[ReleasePrompts + i], Cardinality(Candidates(i)))

\* C4: an invalid selection ends the run in an error and selects nothing: a
\* --release name that is no key of Releases or a typed release index outside
\* 0..n-1 selects no release, and a --build name that is no candidate or a
\* typed build index outside 0..n-1 selects no build for that target.
C4_InvalidSelectionFails ==
    /\ (ReleaseCalled /\ (BadReleaseArg \/ BadReleaseIndex)) =>
            pc = "error" /\ relName = <<>>
    /\ \A i \in Rounds :
            (BadBuildArg(i) \/ BadBuildIndex(i)) => pc = "error" /\ Len(builds) < i

\* selectBuildImages has returned
ImagesSelected ==
    /\ ReleaseSelected
    /\ pc # "selectBuildImages"
    /\ tIdx > Len(relData.Targets.val)

\* the image files of round i that are named {buildName}.{ext} for a declared
\* extension, as paths
Artifacts(i) ==
    { Join(imageDir(RoundTarget(i)), f) :
        f \in { g \in RegularFiles(i) :
                  \E k \in 1..Len(Lookup(cfg.Targets.val, RoundTarget(i)).Extensions.val) :
                      g = builds[i] \o <<".">> \o
                          Lookup(cfg.Targets.val, RoundTarget(i)).Extensions.val[k] } }

\* the round that selected the path, and the place of its name in that
\* round's listing and in that round's extension list
RoundOf(path) == CHOOSE i \in Rounds : path \in Artifacts(i)
ListingPlace(path) ==
    CHOOSE k \in 1..Len(dirLists[RoundOf(path)].entries) :
        Join(imageDir(RoundTarget(RoundOf(path))), dirLists[RoundOf(path)].entries[k].name) = path
ExtensionPlace(path) ==
    CHOOSE k \in 1..Len(Lookup(cfg.Targets.val, RoundTarget(RoundOf(path))).Extensions.val) :
        Join(imageDir(RoundTarget(RoundOf(path))),
             builds[RoundOf(path)] \o <<".">> \o
             Lookup(cfg.Targets.val, RoundTarget(RoundOf(path))).Extensions.val[k]) = path

\* the returned list holds exactly the artifacts of every round, each once,
\* the rounds in target order
ExactlyTheArtifacts ==
    /\ { retList[k] : k \in 1..Len(retList) } = UNION { Artifacts(i) : i \in Rounds }
    /\ \A k, l \in 1..Len(retList) : k < l => retList[k] # retList[l]
    /\ \A k, l \in 1..Len(retList) : k < l => RoundOf(retList[k]) <= RoundOf(retList[l])

\* C5 (as claimed): the returned list holds exactly the files named
\* {buildName}.{ext} of each target, the targets in the release's order and
\* the files of a target in the order its extensions are declared.
C5_ExtensionOrder ==
    ImagesSelected =>
        /\ ExactlyTheArtifacts
        /\ \A k, l \in 1..Len(retList) :
              (k < l /\ RoundOf(retList[k]) = RoundOf(retList[l])) =>
                  ExtensionPlace(retList[k]) < ExtensionPlace(retList[l])

\* C5 (amended): the returned list holds exactly the files named
\* {buildName}.{ext} of each target, the targets in the release's order and
\* the files of a target in the order of the directory listing.
C5_ListingOrder ==
    ImagesSelected =>
        /\ ExactlyTheArtifacts
        /\ \A k, l \in 1..Len(retList) :
              (k < l /\ RoundOf(retList[k]) = RoundOf(retList[l])) =>
                  ListingPlace(retList[k]) < ListingPlace(retList[l])

\* two targets have been selected, the first with two artifacts that the
\* directory lists against the order of the extensions
C5_Witness ==
    /\ ImagesSelected
    /\ Len(builds) = 2
    /\ Len(retList) = 3
    /\ ExtensionPlace(retList[1]) > ExtensionPlace(retList[2])

\* C9: with --build latest and a target that has candidates, the selected
\* build is a candidate and no candidate is lexicographically after it; of
\* fw_1, fw_2 and fw_10 it is fw_2.
C9_LatestIsLexicographicMax ==
    \A i \in 1..Len(builds) :
        (args.build.kind = "value" /\ args.build.val = <<"l","a","t","e","s","t">>) =>
            /\ builds[i] \in Candidates(i)
            /\ \A c \in Candidates(i) : ~StrLess(builds[i], c)
            /\ Candidates(i) = { <<"f","w","_","1">>, <<"f","w","_","2">>, <<"f","w","_","1","0">> } => builds[i] = <<"f","w","_","2">>

\* latest has selected fw_2 among fw_1, fw_2 and fw_10
C9_Witness ==
    /\ args.build.kind = "value" /\ args.build.val = <<"l","a","t","e","s","t">>
    /\ Len(builds) >= 1
    /\ Candidates(1) = { <<"f","w","_","1">>, <<"f","w","_","2">>, <<"f","w","_","1","0">> }
    /\ builds[1] = <<"f","w","_","2">>

-----------------------------------------------------------------------------
(* Properties of the archive stage *)

GroupKeys == { "RoguePackages", "RogueConfig", "CpswSource", "CpswConfig" }

\* the elements of a list
Elems(list) == { list[k] : k \in 1..Len(list) }

\* the base directories of a file group
Bases(key) == { Join(FirmwareDir, d) : d \in Elems(groupDirs(cfg, relData, key)) }

\* what is on disk below the base directories of a file group: the kind and
\* the path of every node
OnDisk(key) ==
    UNION { { [type     |-> IF n.isDir THEN "folder" ELSE "file",
               fullPath |-> Join(FirmwareDir, d) \o <<"/">> \o relPath(n)] :
              n \in Elems(walked[d]) } :
            d \in Elems(groupDirs(cfg, relData, key)) }

\* C6: the list selectFiles returns for a file group holds every directory
\* and file below the group's base directories, and the relative path of an
\* entry is its path with the leading base directory and separator removed:
\* base + '/' + relativePath is the path.
C6_RelativePathStripsBase ==
    \A key \in GroupKeys :
        lists[key].kind = "value" =>
            /\ { [type |-> e.type, fullPath |-> e.fullPath] : e \in Elems(lists[key].val) }
                   = OnDisk(key)
            /\ \A e \in Elems(lists[key].val) :
                   \E b \in Bases(key) : b \o <<"/">> \o e.subPath = e.fullPath

\* buildRogueFile has returned
RogueBuilt == InList(zipName(relName, ver), imgList)

\* the line holds none of the four markers
MarkerFree(line) ==
    /\ ~Contains(<<"i","m","p","o","r","t"," ","o","s">>, line)
    /\ ~Contains(<<"_","_","v","e","r","s","i","o","n","_","_">>, line)
    /\ ~Contains(<<"C","o","n","f","i","g","D","i","r">>, line)
    /\ ~Contains(<<"I","m","a","g","e","D","i","r">>, line)

\* the lines of the initializer without a marker, in their order
KeptLines == Pick(initFile.val, { k \in 1..Len(initFile.val) : MarkerFree(initFile.val[k]) })

\* C7: in a package archive that was built, the only entry at the top
\* package's initializer path is text written by the script, not a copy of
\* the file; the text is the lines of the file without a marker, in their
\* order, followed by the added block; no marker occurs before the added
\* block, and the added block assigns the supplied version.
C7_InitializerRewritten ==
    RogueBuilt =>
        LET last == zf.entries[Len(zf.entries)]
            kept == Flatten(KeptLines)
        IN  /\ \A k \in 1..Len(zf.entries) :
                   zf.entries[k].arcname = cfg.TopPackage.val \o <<"/","_","_","i","n","i","t","_","_",".","p","y">>
                       <=> k = Len(zf.entries)
            /\ last.written
            /\ SubSeq(last.text, 1, Len(kept)) = kept
            /\ MarkerFree(kept)
            /\ SubSeq(last.text, Len(kept) + 1, Len(last.text)) = addedBlock(ver)
            /\ Contains(<<"\n","_","_","v","e","r","s","i","o","n","_","_"," ","="," ","'">> \o ver \o <<"'","\n">>, last.text)

\* an archive was built from an initializer of two lines, one of them with a
\* marker
C7_Witness ==
    /\ RogueBuilt
    /\ Len(initFile.val) = 2
    /\ Len(KeptLines) = 1

\* the entries of a list that are files
FileEntries(list) == { e \in Elems(list) : e.type = "file" }

\* C8: every entry added to the source tarball is a file, a file of the
\* source group at {relName}_project.yaml/{subPath} or a file of the
\* config group at {relName}_project.yaml/config/{subPath}, and every such
\* file is added; when the source group is empty the build fails and no
\* tarball is written.
C8_TarballHoldsFilesUnderBaseDir ==
    /\ (lists.CpswSource.kind = "value" /\ lists.CpswSource.val = <<>>) =>
           pc = "error" /\ ~tf.created /\ tf.entries = <<>>
    /\ tf.created =>
           /\ \A t \in Elems(tf.entries) : t.type = "file"
           /\ { [arcname |-> t.arcname, src |-> t.src] : t \in Elems(tf.entries) } =
                  { [arcname |-> relName \o <<"_","p","r","o","j","e","c","t",".","y","a","m","l","/">> \o e.subPath,
                     src |-> e.fullPath] : e \in FileEntries(lists.CpswSource.val) } \cup
                  { [arcname |-> relName \o <<"_","p","r","o","j","e","c","t",".","y","a","m","l","/","c","o","n","f","i","g","/">> \o e.subPath,
                     src |-> e.fullPath] : e \in FileEntries(lists.CpswConfig.val) }

\* a tarball was written from a source group and a config group that both
\* hold a directory and a file
C8_Witness ==
    /\ tf.created
    /\ \E e \in Elems(lists.CpswSource.val) : e.type = "folder"
    /\ \E e \in Elems(lists.CpswConfig.val) : e.type = "folder"
    /\ FileEntries(lists.CpswSource.val) # {}
    /\ FileEntries(lists.CpswConfig.val) # {}

-----------------------------------------------------------------------------
(* Properties of the whole run *)

\* the effects of one kind
Effects(op) == { k \in 1..Len(remote) : remote[k].op = op }

\* C1: when the repository reports dirty the run ends in an error and no
\* tag was created or pushed, no release created and no asset uploaded.
C1_DirtyTreeStopsBeforeTag ==
    dirty = "dirty" => pc = "error" /\ remote = <<>>

\* the repository has reported dirty
C1_Witness == dirty = "dirty" /\ args.push /\ RogueBuilt

\* C2 (as claimed): when the run has ended in an error, no release record
\* was created.
C2_NoReleaseAfterError ==
    pc = "error" => Effects("create_git_release") = {}

\* C2 (amended): when the run has ended in an error before the upload loop,
\* no release record was created; when it has ended in an error in the
\* upload loop, the release record of this run exists, with the assets
\* uploaded before the error.
C2_NoReleaseUnlessUploadFailed ==
    pc = "error" =>
        /\ upIdx = 0 => Effects("create_git_release") = {} /\ Effects("upload_asset") = {}
        /\ upIdx >= 1 =>
              /\ Cardinality(Effects("create_git_release")) = 1
              /\ Cardinality(Effects("upload_asset")) = upIdx - 1

\* the upload of the second asset has raised
C2_Witness ==
    /\ pc = "error"
    /\ upIdx = 2
    /\ Effects("create_git_release") # {}

\* the attachments of the run: the selected images, the zip file if Rogue is
\* a type of the release, the tarball if CPSW is
Attachments ==
    retList \o
    (IF InList("Rogue", relData.Types.val)
     THEN << FirmwareDir \o <<"/","r","o","g","u","e","_">> \o relName \o <<"_">> \o ver \o <<".","z","i","p">> >> ELSE <<>>) \o
    (IF InList("CPSW", relData.Types.val)
     THEN << FirmwareDir \o <<"/","c","p","s","w","_">> \o relName \o <<"_">> \o ver \o <<".","t","a","r",".","g","z">> >> ELSE <<>>)

\* what a run that pushes does to the remote, in order
Published ==
    << Effect("create_tag", relName \o <<"_">> \o ver),
       Effect("push", relName \o <<"_">> \o ver),
       Effect("create_git_release", relName \o <<"_">> \o ver) >> \o
    [k \in 1..Len(Attachments) |-> Effect("upload_asset", Attachments[k])]

\* C10: the remote is touched only with --push and after the configuration
\* was loaded, the release and the builds selected and every archive of the
\* release's types built; what is done to it is, in order, the tag created,
\* the tag pushed, the release created and each attachment uploaded once,
\* the selected images, then the zip file, then the tarball; a run that ends
\* without error has done all of it.
C10_PublishOnlyAfterBuildInOrder ==
    /\ remote # <<>> =>
           /\ args.push
           /\ ImagesSelected
           /\ InList("Rogue", relData.Types.val) =>
                  zf.created /\ zf.entries[Len(zf.entries)].arcname = topInit(cfg)
           /\ InList("CPSW", relData.Types.val) => tf.created
           /\ Len(remote) <= Len(Published)
           /\ \A k \in 1..Len(remote) : remote[k] = Published[k]
    /\ (pc = "done" /\ args.push) => remote = Published

\* a run has published two images, the zip file and the tarball
C10_Witness ==
    /\ pc = "done"
    /\ Len(retList) = 2
    /\ Len(remote) = 7

=============================================================================
